---- MODULE Spec2Model ----
(***************************************************************************)
(* Model of the event-sourced URL shortener of src/src/main.rs:            *)
(* UrlShortenerService with its link table, stats table and event store,   *)
(* the two command handlers and the query handler.                         *)
(***************************************************************************)
EXTENDS Integers, Sequences, FiniteSets, TLC

(* ------------------------------ bounds --------------------------------- *)

\* The clock readings subsec_nanos() may return are 0..MaxNanos.
MaxNanos == 1

\* Commands are issued while the event store holds fewer events than this.
MaxEvents == 3

\* The callers that share one service in the stepwise specification.
NumCallers == 2

(* ------------------------------ values --------------------------------- *)

None == <<>>

Some(v) == <<v>>

Ok(v) == <<"Ok", v>>

Err(e) == <<"Err", e>>

InvalidUrl == "InvalidUrl"

SlugAlreadyInUse == "SlugAlreadyInUse"

SlugNotFound == "SlugNotFound"

ShortLink(slug, url) == [slug |-> slug, url |-> url]

Stats(link, redirects) == [link |-> link, redirects |-> redirects]

LinkCreated(short_link) == <<"LinkCreated", short_link>>

LinkRedirected(slug) == <<"LinkRedirected", slug>>

\* u32::to_string: the decimal digits of n, most significant first.
Digits == <<"0", "1", "2", "3", "4", "5", "6", "7", "8", "9">>

RECURSIVE to_string(_)
to_string(n) ==
    IF n < 10 THEN Digits[n + 1]
    ELSE to_string(n \div 10) \o Digits[(n % 10) + 1]

\* The values SystemTime::now()...subsec_nanos() may yield.
subsec_nanos == 0..MaxNanos

\* Slugs callers pass explicitly; "1" is also the text of a clock reading.
RequestedSlugs == {"abc", "1"}

GeneratedSlugs == {to_string(n) : n \in subsec_nanos}

Slugs == RequestedSlugs \cup GeneratedSlugs

\* Urls callers pass: two well-formed ones, an empty one, one without scheme.
Urls == {"https://example.com", "https://rust-lang.org", "", "example"}

\* Urls the callers of the stepwise specification pass.
ThreadUrls == {"https://example.com", ""}

(* --------------------------- HashMap and Vec --------------------------- *)

EmptyMap == [k \in {} |-> None]

contains_key(m, k) == k \in DOMAIN m

insert(m, k, v) == [x \in DOMAIN m \cup {k} |-> IF x = k THEN v ELSE m[x]]

\* The event put at the front of the vector.
push_front(v, e) == <<e>> \o v

push(v, e) == Append(v, e)

(* ------------------------------- state --------------------------------- *)

VARIABLES
    links,        \* UrlShortenerService.links: Slug -> ShortLink
    stats,        \* UrlShortenerService.stats: Slug -> Stats
    event_store,  \* UrlShortenerService.event_store: sequence of Event
    pc,           \* "idle", or "while" inside the slug generation loop
    url_arg,      \* the url of the create call that is inside the loop
    random_slug,  \* the candidate bound before the loop (line 175)
    shadow,       \* the candidate bound inside the loop body (line 183)
    threads,      \* stepwise specification: each caller's position and locals
    last,         \* the last call that returned: op, arguments, result
    tick,         \* flips each time a call returns
    created,      \* the ShortLinks returned Ok by create, in order
    hits          \* per slug, the Ok redirects since its creation

tables == <<links, stats, event_store>>

frame == <<pc, url_arg, random_slug, shadow>>

history == <<last, tick, created, hits>>

vars == <<links, stats, event_store, pc, url_arg, random_slug, shadow,
          threads, last, tick, created, hits>>

Callers == 1..NumCallers

\* A caller that is in no call.
Idle == [pc |-> "idle", url |-> None, requested |-> None, slug |-> None,
         shadow |-> None, redirects |-> None]

Call(op, url, slug, result) ==
    [op |-> op, url |-> url, slug |-> slug, result |-> result]

\* UrlShortenerService::new
Init ==
    /\ links = EmptyMap
    /\ stats = EmptyMap
    /\ event_store = <<>>
    /\ pc = "idle"
    /\ url_arg = None
    /\ random_slug = None
    /\ shadow = None
    /\ threads = [c \in Callers |-> Idle]
    /\ last = Call("new", None, None, None)
    /\ tick = 0
    /\ created = <<>>
    /\ hits = EmptyMap

(* ------------------------------ handlers ------------------------------- *)

\* A call returns `result` to its caller.
returns(op, url, slug, result) ==
    /\ last' = Call(op, url, slug, result)
    /\ tick' = 1 - tick

\* The existence test left out.
slug_in_use_unchecked(s) == FALSE

\* Line 169: the existence test of an explicitly requested slug.
slug_in_use(s) == contains_key(links, s)

\* The insertion into the stats table left out.
create_link_without_stats(url, slug, requested) ==
    LET short_link == ShortLink(slug, url) IN
    /\ links' = insert(links, slug, short_link)
    /\ stats' = stats
    /\ event_store' = push(event_store, LinkCreated(short_link))
    /\ returns("handle_create_short_link", Some(url), requested, Ok(short_link))
    /\ created' = Append(created, short_link)
    /\ hits' = insert(hits, slug, 0)

\* The Stats of a slug that is created start at 1.
create_link_counted(url, slug, requested) ==
    LET short_link == ShortLink(slug, url) IN
    /\ links' = insert(links, slug, short_link)
    /\ stats' = insert(stats, slug, Stats(short_link, 1))
    /\ event_store' = push(event_store, LinkCreated(short_link))
    /\ returns("handle_create_short_link", Some(url), requested, Ok(short_link))
    /\ created' = Append(created, short_link)
    /\ hits' = insert(hits, slug, 0)

\* Lines 195-210: build the ShortLink, insert it into both tables, push the
\* LinkCreated event and return the ShortLink.
create_link(url, slug, requested) ==
    LET short_link == ShortLink(slug, url) IN
    /\ links' = insert(links, slug, short_link)
    /\ stats' = insert(stats, slug, Stats(short_link, 0))
    /\ event_store' = push(event_store, LinkCreated(short_link))
    /\ returns("handle_create_short_link", Some(url), requested, Ok(short_link))
    /\ created' = Append(created, short_link)
    /\ hits' = insert(hits, slug, 0)

\* The existence test made after the insertion: a taken slug is reported,
\* but its link and stats have been overwritten already.
create_requested_insert_first(url, s) ==
    IF slug_in_use(s)
    THEN /\ links' = insert(links, s, ShortLink(s, url))
         /\ stats' = insert(stats, s, Stats(ShortLink(s, url), 0))
         /\ returns("handle_create_short_link", Some(url), Some(s),
                    Err(SlugAlreadyInUse))
         /\ UNCHANGED <<event_store, frame, created, hits>>
    ELSE /\ create_link(url, s, Some(s))
         /\ UNCHANGED frame

\* The existence test extended to urls: a url that is already the target
\* of a link is refused as well.
create_requested_unique_url(url, s) ==
    IF slug_in_use(s) \/ \E t \in DOMAIN links : links[t].url = url
    THEN /\ returns("handle_create_short_link", Some(url), Some(s),
                    Err(SlugAlreadyInUse))
         /\ UNCHANGED <<tables, frame, created, hits>>
    ELSE /\ create_link(url, s, Some(s))
         /\ UNCHANGED frame

\* Lines 167-173: the caller passed Some(s).
create_requested(url, s) ==
    IF slug_in_use(s)
    THEN /\ returns("handle_create_short_link", Some(url), Some(s),
                    Err(SlugAlreadyInUse))
         /\ UNCHANGED <<tables, frame, created, hits>>
    ELSE /\ create_link(url, s, Some(s))
         /\ UNCHANGED frame

\* The generated candidate used without the existence test.
create_generated_unchecked(url, n) ==
    /\ create_link(url, to_string(n), None)
    /\ UNCHANGED frame

\* Lines 174-192, up to the first test of the while condition: the caller
\* passed None, the candidate is the text of the clock reading n.
create_generated(url, n) ==
    LET candidate == to_string(n) IN
    IF contains_key(links, candidate)
    THEN /\ pc' = "while"
         /\ url_arg' = Some(url)
         /\ random_slug' = Some(candidate)
         /\ shadow' = None
         /\ UNCHANGED <<tables, history>>
    ELSE /\ create_link(url, candidate, None)
         /\ UNCHANGED frame

\* Lines 162-211.
handle_create_short_link(url, slug) ==
    /\ pc = "idle"
    /\ UNCHANGED threads
    /\ Len(event_store) < MaxEvents
    /\ IF slug # None
       THEN create_requested(url, slug[1])
       ELSE \E n \in subsec_nanos : create_generated(url, n)

\* Lines 182-190: one turn of the while loop. The condition reads the
\* binding made before the loop; the body binds a new variable of the same
\* name, which goes out of scope at the end of the body.
while_loop ==
    /\ pc = "while"
    /\ UNCHANGED threads
    /\ IF contains_key(links, random_slug[1])
       THEN /\ \E n \in subsec_nanos : shadow' = Some(to_string(n))
            /\ UNCHANGED <<tables, pc, url_arg, random_slug, history>>
       ELSE /\ create_link(url_arg[1], random_slug[1], None)
            /\ pc' = "idle"
            /\ url_arg' = None
            /\ random_slug' = None
            /\ shadow' = None

\* The counter assigned instead of incremented.
increment_assign(stat) == [stat EXCEPT !.redirects = 1]

\* The counter incremented by two.
increment_by_two(stat) == [stat EXCEPT !.redirects = @ + 2]

\* Line 216.
increment(stat) == [stat EXCEPT !.redirects = @ + 1]

\* The counter incremented without the event being pushed.
redirect_found_unlogged(slug) ==
    /\ IF contains_key(stats, slug)
       THEN /\ stats' = [stats EXCEPT ![slug] = increment(@)]
            /\ UNCHANGED event_store
       ELSE UNCHANGED <<stats, event_store>>
    /\ returns("handle_redirect", None, Some(slug), Ok(links[slug]))
    /\ hits' = insert(hits, slug,
                      IF slug \in DOMAIN hits THEN hits[slug] + 1 ELSE 1)
    /\ UNCHANGED <<links, frame, created>>

\* Lines 214-219: the slug is in the link table.
redirect_found(slug) ==
    /\ IF contains_key(stats, slug)
       THEN /\ stats' = [stats EXCEPT ![slug] = increment(@)]
            /\ event_store' = push(event_store, LinkRedirected(slug))
       ELSE UNCHANGED <<stats, event_store>>
    /\ returns("handle_redirect", None, Some(slug), Ok(links[slug]))
    /\ hits' = insert(hits, slug,
                      IF slug \in DOMAIN hits THEN hits[slug] + 1 ELSE 1)
    /\ UNCHANGED <<links, frame, created>>

\* The event pushed before the lookup: an unknown slug is logged too.
redirect_missing_logged(slug) ==
    /\ event_store' = push(event_store, LinkRedirected(slug))
    /\ returns("handle_redirect", None, Some(slug), Err(SlugNotFound))
    /\ UNCHANGED <<links, stats, frame, created, hits>>

\* Lines 220-222: the slug is not in the link table.
redirect_missing(slug) ==
    /\ returns("handle_redirect", None, Some(slug), Err(SlugNotFound))
    /\ UNCHANGED <<tables, frame, created, hits>>

\* Lines 213-223.
handle_redirect(slug) ==
    /\ pc = "idle"
    /\ UNCHANGED threads
    /\ Len(event_store) < MaxEvents
    /\ IF contains_key(links, slug)
       THEN redirect_found(slug)
       ELSE redirect_missing(slug)

\* The Stats rebuilt from the link table instead of read from the stats
\* table: the counter is lost.
stats_lookup_rebuilt(slug) ==
    IF contains_key(links, slug)
    THEN Ok(Stats(links[slug], 0))
    ELSE Err(SlugNotFound)

\* Lines 228-231: stats.get(&slug).cloned().ok_or(SlugNotFound).
stats_lookup(slug) ==
    IF contains_key(stats, slug) THEN Ok(stats[slug]) ELSE Err(SlugNotFound)

\* Lines 227-232.
get_stats(slug) ==
    /\ pc = "idle"
    /\ UNCHANGED threads
    /\ returns("get_stats", None, Some(slug), stats_lookup(slug))
    /\ UNCHANGED <<tables, frame, created, hits>>

CreateCall ==
    \E url \in Urls :
        \E slug \in {None} \cup {Some(s) : s \in RequestedSlugs} :
            handle_create_short_link(url, slug)

RedirectCall == \E slug \in Slugs : handle_redirect(slug)

StatsCall == \E slug \in Slugs : get_stats(slug)

Next ==
    \/ CreateCall
    \/ RedirectCall
    \/ StatsCall
    \/ while_loop

Spec == Init /\ [][Next]_vars

(* ------------------- the handlers, statement by statement -------------- *)

\* Several callers share one service. A command handler takes `&mut self`
\* (lines 163 and 213): the caller holds the only reference to the service
\* from the call to the return. The query handler takes `&self` (line 227):
\* no caller holds `&mut self` meanwhile.

InCommand(c) == threads[c].pc # "idle"

\* The exclusivity of `&mut self` left out, as if the handlers took a
\* shared reference to a service with interior mutability.
borrow_mut_unchecked(c) == TRUE

\* Lines 163, 213: `&mut self` can be taken by c.
borrow_mut(c) == \A d \in Callers \ {c} : ~InCommand(d)

\* `&self` handed out while another caller holds `&mut self`.
borrow_shared_unchecked(c) == TRUE

\* Line 227: `&self` can be taken by c.
borrow_shared(c) == \A d \in Callers \ {c} : ~InCommand(d)

goto(c, label, locals) ==
    threads' = [threads EXCEPT ![c] = [locals EXCEPT !.pc = label]]

\* Lines 167-181: the call, the match on the slug argument and, without
\* a slug, the first candidate.
thread_create_call(c, url, slug) ==
    /\ threads[c].pc = "idle"
    /\ borrow_mut(c)
    /\ Len(event_store) < MaxEvents
    /\ UNCHANGED <<tables, frame, created, hits>>
    /\ IF slug # None
       THEN IF contains_key(links, slug[1])
            THEN /\ returns("handle_create_short_link", Some(url), slug,
                            Err(SlugAlreadyInUse))
                 /\ UNCHANGED threads
            ELSE /\ goto(c, "insert_links",
                         [Idle EXCEPT !.url = Some(url), !.requested = slug,
                                      !.slug = slug])
                 /\ UNCHANGED <<last, tick>>
       ELSE /\ \E n \in subsec_nanos :
                 goto(c, "while",
                      [Idle EXCEPT !.url = Some(url),
                                   !.slug = Some(to_string(n))])
            /\ UNCHANGED <<last, tick>>

\* Lines 182-192: the test of the while condition, then either the body
\* or the end of the match.
thread_while(c) ==
    /\ threads[c].pc = "while"
    /\ UNCHANGED <<tables, frame, history>>
    /\ IF contains_key(links, threads[c].slug[1])
       THEN \E n \in subsec_nanos :
               goto(c, "while",
                    [threads[c] EXCEPT !.shadow = Some(to_string(n))])
       ELSE goto(c, "insert_links", [threads[c] EXCEPT !.shadow = None])

\* Lines 195-199.
thread_insert_links(c) ==
    /\ threads[c].pc = "insert_links"
    /\ links' = insert(links, threads[c].slug[1],
                       ShortLink(threads[c].slug[1], threads[c].url[1]))
    /\ goto(c, "insert_stats", threads[c])
    /\ UNCHANGED <<stats, event_store, frame, history>>

\* Lines 200-206.
thread_insert_stats(c) ==
    /\ threads[c].pc = "insert_stats"
    /\ stats' = insert(stats, threads[c].slug[1],
                       Stats(ShortLink(threads[c].slug[1], threads[c].url[1]),
                             0))
    /\ goto(c, "push", threads[c])
    /\ UNCHANGED <<links, event_store, frame, history>>

\* Lines 207-210.
thread_push_created(c) ==
    LET short_link == ShortLink(threads[c].slug[1], threads[c].url[1]) IN
    /\ threads[c].pc = "push"
    /\ event_store' = push(event_store, LinkCreated(short_link))
    /\ returns("handle_create_short_link", threads[c].url,
               threads[c].requested, Ok(short_link))
    /\ created' = Append(created, short_link)
    /\ hits' = insert(hits, short_link.slug, 0)
    /\ goto(c, "idle", Idle)
    /\ UNCHANGED <<links, stats, frame>>

\* Lines 213-215 and 220-222: the call and the two lookups.
thread_redirect_call(c, slug) ==
    /\ threads[c].pc = "idle"
    /\ borrow_mut(c)
    /\ Len(event_store) < MaxEvents
    /\ UNCHANGED <<tables, frame, created>>
    /\ IF ~contains_key(links, slug)
       THEN /\ returns("handle_redirect", None, Some(slug), Err(SlugNotFound))
            /\ UNCHANGED <<threads, hits>>
       ELSE IF ~contains_key(stats, slug)
       THEN /\ returns("handle_redirect", None, Some(slug), Ok(links[slug]))
            /\ hits' = insert(hits, slug,
                         IF slug \in DOMAIN hits THEN hits[slug] + 1 ELSE 1)
            /\ UNCHANGED threads
       ELSE /\ goto(c, "load",
                    [Idle EXCEPT !.slug = Some(slug),
                                 !.url = Some(links[slug].url)])
            /\ UNCHANGED <<last, tick, hits>>

\* Line 216, the read of `stat.redirects += 1`.
thread_load(c) ==
    /\ threads[c].pc = "load"
    /\ goto(c, "store",
            [threads[c] EXCEPT
               !.redirects = Some(stats[threads[c].slug[1]].redirects)])
    /\ UNCHANGED <<tables, frame, history>>

\* Line 216, the write of `stat.redirects += 1`.
thread_store(c) ==
    /\ threads[c].pc = "store"
    /\ stats' = [stats EXCEPT ![threads[c].slug[1]].redirects =
                                threads[c].redirects[1] + 1]
    /\ goto(c, "push_redirected", threads[c])
    /\ UNCHANGED <<links, event_store, frame, history>>

\* Lines 217-219.
thread_push_redirected(c) ==
    LET slug == threads[c].slug[1] IN
    /\ threads[c].pc = "push_redirected"
    /\ event_store' = push(event_store, LinkRedirected(slug))
    /\ returns("handle_redirect", None, Some(slug),
               Ok(ShortLink(slug, threads[c].url[1])))
    /\ hits' = insert(hits, slug,
                      IF slug \in DOMAIN hits THEN hits[slug] + 1 ELSE 1)
    /\ goto(c, "idle", Idle)
    /\ UNCHANGED <<links, stats, frame, created>>

\* Lines 227-232.
thread_get_stats(c, slug) ==
    /\ threads[c].pc = "idle"
    /\ borrow_shared(c)
    /\ returns("get_stats", None, Some(slug), stats_lookup(slug))
    /\ UNCHANGED <<tables, frame, threads, created, hits>>

ThreadCreateCall ==
    \E c \in Callers : \E url \in ThreadUrls :
        \E slug \in {None} \cup {Some(s) : s \in RequestedSlugs} :
            thread_create_call(c, url, slug)

ThreadRedirectCall ==
    \E c \in Callers : \E slug \in Slugs : thread_redirect_call(c, slug)

ThreadStatsCall ==
    \E c \in Callers : \E slug \in Slugs : thread_get_stats(c, slug)

ThreadStep ==
    \E c \in Callers :
        \/ thread_while(c)
        \/ thread_insert_links(c)
        \/ thread_insert_stats(c)
        \/ thread_push_created(c)
        \/ thread_load(c)
        \/ thread_store(c)
        \/ thread_push_redirected(c)

NextThreads ==
    \/ ThreadCreateCall
    \/ ThreadRedirectCall
    \/ ThreadStatsCall
    \/ ThreadStep

SpecThreads == Init /\ [][NextThreads]_vars

(* ------------------------- vocabulary of the claims -------------------- *)

\* A url with a scheme and a host.
WellFormedUrls == {"https://example.com", "https://rust-lang.org"}

well_formed(url) == url \in WellFormedUrls

\* The projection of the specification: fold one event into a state.
EmptyState == [links |-> EmptyMap, stats |-> EmptyMap, fatal |-> FALSE]

fold(state, event) ==
    IF state.fatal THEN state
    ELSE IF event[1] = "LinkCreated"
    THEN [state EXCEPT
            !.links = insert(state.links, event[2].slug, event[2]),
            !.stats = insert(state.stats, event[2].slug, Stats(event[2], 0))]
    ELSE IF event[2] \in DOMAIN state.stats
    THEN [state EXCEPT !.stats[event[2]].redirects = @ + 1]
    ELSE [state EXCEPT !.fatal = TRUE]

RECURSIVE replay(_)
replay(events) ==
    IF events = <<>> THEN EmptyState
    ELSE fold(replay(SubSeq(events, 1, Len(events) - 1)),
              events[Len(events)])

LiveState == [links |-> links, stats |-> stats, fatal |-> FALSE]

\* The step is the return of a call of `op`.
Returned(op) == tick' # tick /\ last'.op = op

(* -------------------------------- claims ------------------------------- *)

\* C1: no two create calls that returned Ok returned the same slug,
\* whether the slugs were requested or generated.
C1_Uniqueness ==
    \A i, j \in 1..Len(created) :
        i # j => created[i].slug # created[j].slug

\* C1 witness: a generated slug was returned after an earlier create.
C1_Witness ==
    /\ Len(created) >= 2
    /\ last.op = "handle_create_short_link"
    /\ last.slug = None
    /\ last.result = Ok(created[Len(created)])
    /\ \E i \in 1..Len(created) : created[i].slug \in RequestedSlugs

\* C2: for every slug in the link table, get_stats returns Ok with
\* redirects equal to the number of Ok redirects of the slug since it was
\* created.
C2_CounterCorrect ==
    /\ \A s \in DOMAIN links :
          /\ s \in DOMAIN hits
          /\ stats_lookup(s)[1] = "Ok"
          /\ stats_lookup(s)[2].redirects = hits[s]
    /\ (last.op = "get_stats" /\ last.slug[1] \in DOMAIN links)
          => /\ last.result[1] = "Ok"
             /\ last.result[2].redirects = hits[last.slug[1]]

\* C2 witness: get_stats returned 2 after two redirects of the slug, with
\* another link present.
C2_Witness ==
    /\ last.op = "get_stats"
    /\ last.result[1] = "Ok"
    /\ last.result[2].redirects = 2
    /\ hits[last.slug[1]] = 2

\* C3: handle_redirect and get_stats of a slug that is not in the link
\* table return Err(SlugNotFound) and change neither table nor the log.
C3_UnknownSlug ==
    [][(/\ Returned("handle_redirect") \/ Returned("get_stats")
        /\ last'.slug[1] \notin DOMAIN links)
         => /\ last'.result = Err(SlugNotFound)
            /\ UNCHANGED <<links, stats, event_store>>]_vars

\* C3 witness: a redirect of an unknown slug returned, other links exist.
C3_Witness ==
    /\ last.op = "handle_redirect"
    /\ last.slug[1] \notin DOMAIN links
    /\ last.result = Err(SlugNotFound)
    /\ links # EmptyMap

\* C4: a create with a requested slug that is in the link table returns
\* Err(SlugAlreadyInUse) and changes neither table nor the log.
C4_ExplicitCollision ==
    [][(/\ Returned("handle_create_short_link")
        /\ last'.slug # None
        /\ last'.slug[1] \in DOMAIN links)
         => /\ last'.result = Err(SlugAlreadyInUse)
            /\ UNCHANGED <<links, stats, event_store>>]_vars

\* C4 witness: the refused create passed another url than the one of the
\* existing link, whose counter is not 0.
C4_Witness ==
    /\ last.op = "handle_create_short_link"
    /\ last.result = Err(SlugAlreadyInUse)
    /\ last.slug[1] \in DOMAIN links
    /\ links[last.slug[1]].url # last.url[1]
    /\ stats[last.slug[1]].redirects > 0

\* C5: a create with a well-formed url and a requested slug s returns
\* Ok(ShortLink{s, url}) exactly when s is not in the link table, whether
\* or not the url is the target of another link.
C5_ExplicitAllocation ==
    [][(/\ Returned("handle_create_short_link")
        /\ last'.slug # None
        /\ well_formed(last'.url[1]))
         => (last'.result = Ok(ShortLink(last'.slug[1], last'.url[1]))
               <=> last'.slug[1] \notin DOMAIN links)]_vars

\* C5 witness: the create returned Ok for a url that another slug maps to.
C5_Witness ==
    /\ last.op = "handle_create_short_link"
    /\ last.slug # None
    /\ well_formed(last.url[1])
    /\ last.result = Ok(ShortLink(last.slug[1], last.url[1]))
    /\ \E t \in DOMAIN links : t # last.slug[1] /\ links[t].url = last.url[1]

\* C6: a create with a url that is not well-formed returns
\* Err(InvalidUrl), and no link maps to such a url.
C6_InvalidUrlRejected ==
    /\ (last.op = "handle_create_short_link" /\ ~well_formed(last.url[1]))
          => last.result = Err(InvalidUrl)
    /\ \A s \in DOMAIN links : well_formed(links[s].url)

\* C7: a create without a slug that is retrying tests the candidate it
\* generated last, so it is never still in the loop once a retry has
\* generated a slug that is not in the link table.
C7_RetryTakesNewCandidate ==
    pc = "while" => (shadow = None \/ contains_key(links, shadow[1]))

\* C8: the link table and the stats table are the fold of the event log
\* from the empty state.
C8_LogIsSourceOfTruth == replay(event_store) = LiveState

\* C8 witness: the log holds two creations and a redirect.
C8_Witness ==
    /\ Len(event_store) = 3
    /\ event_store[3][1] = "LinkRedirected"
    /\ Cardinality(DOMAIN links) = 2

\* C9: get_stats changes neither table nor the log, and for a slug in the
\* stats table returns Ok with the stored Stats.
C9_GetStatsPure ==
    [][Returned("get_stats")
         => /\ UNCHANGED <<links, stats, event_store>>
            /\ last'.slug[1] \in DOMAIN stats
                 => last'.result = Ok(stats[last'.slug[1]])]_vars

\* C9 witness: get_stats returned the Stats of a redirected link.
C9_Witness ==
    /\ last.op = "get_stats"
    /\ last.slug[1] \in DOMAIN stats
    /\ last.result = Ok(stats[last.slug[1]])
    /\ stats[last.slug[1]].redirects >= 1
    /\ stats[last.slug[1]].link = links[last.slug[1]]

\* C10: commands of several callers are serialized: at most one caller is
\* inside a command, no two creates return the same slug, and once every
\* command has returned each counter equals the number of Ok redirects of
\* its slug.
C10_CommandsSerialized ==
    /\ \A c, d \in Callers : (InCommand(c) /\ InCommand(d)) => c = d
    /\ \A i, j \in 1..Len(created) :
          i # j => created[i].slug # created[j].slug
    /\ (\A c \in Callers : ~InCommand(c))
          => \A s \in DOMAIN links :
                /\ s \in DOMAIN stats
                /\ s \in DOMAIN hits
                /\ stats[s].redirects = hits[s]

\* C10 witness: after a create and a redirect have returned, a caller is
\* between the existence test and the insertion of a create while another
\* caller is idle.
C10_Witness ==
    /\ Len(created) = 1
    /\ \E s \in DOMAIN stats : stats[s].redirects = 1 /\ hits[s] = 1
    /\ \E c, d \in Callers :
          /\ c # d
          /\ threads[c].pc = "insert_links"
          /\ threads[c].slug[1] \notin DOMAIN links
          /\ threads[d].pc = "idle"

\* C11: the stats table and the link table have the same keys, and for
\* every key s the Stats hold the link of s, whose slug is s.
C11_StatsAlongsideLinks ==
    /\ DOMAIN stats = DOMAIN links
    /\ \A s \in DOMAIN links :
          /\ s \in DOMAIN stats
          /\ stats[s].link = links[s]
          /\ links[s].slug = s

\* C11 witness: two links, one requested and one generated, one of them
\* redirected.
C11_Witness ==
    /\ Cardinality(DOMAIN links) = 2
    /\ \E s \in DOMAIN links : s \notin RequestedSlugs
    /\ \E s \in DOMAIN stats : stats[s].redirects = 1

\* C12: a slug that maps to a url keeps mapping to it in every later
\* state, and every Ok redirect returns the ShortLink the create returned.
C12_LinksPermanent ==
    [][/\ \A s \in DOMAIN links :
             s \in DOMAIN links' /\ links'[s] = links[s]
       /\ (Returned("handle_redirect") /\ last'.result[1] = "Ok")
             => \E i \in 1..Len(created) : last'.result = Ok(created[i])]_vars

\* C12 witness: a redirect returned the ShortLink of the first create
\* after a second link, with a generated slug, was created.
C12_Witness ==
    /\ last.op = "handle_redirect"
    /\ last.result[1] = "Ok"
    /\ Len(created) = 2
    /\ last.result = Ok(created[1])
    /\ created[2].slug \notin RequestedSlugs

IsPrefix(s, t) == Len(s) <= Len(t) /\ SubSeq(t, 1, Len(s)) = s

\* The step is the return of a command or of the query.
ReturnedAny == tick' # tick

\* C13: the log before a step is a prefix of the log after it; it grows by
\* one event when a create or a redirect returns Ok and by none when a
\* command returns Err or the query returns.
C13_AppendOnly ==
    [][/\ IsPrefix(event_store, event_store')
       /\ ReturnedAny =>
            Len(event_store') = Len(event_store) +
               (IF last'.op # "get_stats" /\ last'.result[1] = "Ok"
                THEN 1 ELSE 0)
       /\ ~ReturnedAny => event_store' = event_store]_vars

\* C13 witness: the log holds a creation followed by a redirect, and the
\* last command returned Err.
C13_Witness ==
    /\ Len(event_store) = 2
    /\ event_store[1][1] = "LinkCreated"
    /\ event_store[2][1] = "LinkRedirected"
    /\ last.op # "get_stats"
    /\ last.result[1] = "Err"

\* C14: the counter of a slug starts at 0, never decreases, and changes in
\* a step only by +1 and only when the step is an Ok return of
\* handle_redirect for that slug.
C14_CountersMonotonic ==
    [][/\ \A s \in DOMAIN stats :
             /\ s \in DOMAIN stats'
             /\ \/ stats'[s].redirects = stats[s].redirects
                \/ /\ stats'[s].redirects = stats[s].redirects + 1
                   /\ Returned("handle_redirect")
                   /\ last'.slug = Some(s)
                   /\ last'.result[1] = "Ok"
       /\ \A s \in DOMAIN stats' \ DOMAIN stats :
             stats'[s].redirects = 0]_vars

\* C14 witness: a create of a slug whose counter is 1 has just been
\* refused.
C14_Witness ==
    /\ last.op = "handle_create_short_link"
    /\ last.result = Err(SlugAlreadyInUse)
    /\ last.slug[1] \in DOMAIN stats
    /\ stats[last.slug[1]].redirects = 1

\* C15: handle_redirect of a slug s in the link table returns Ok(links[s]),
\* appends LinkRedirected(s) as the last event, adds one to the counter of
\* s and changes nothing else; it never returns Ok without that event.
C15_RedirectEffect ==
    [][/\ (Returned("handle_redirect") /\ last'.slug[1] \in DOMAIN links)
            => /\ last'.result = Ok(links[last'.slug[1]])
               /\ last'.slug[1] \in DOMAIN stats
               /\ stats' = [stats EXCEPT
                              ![last'.slug[1]].redirects = @ + 1]
               /\ links' = links
       /\ (Returned("handle_redirect") /\ last'.result[1] = "Ok")
            => event_store' =
                 Append(event_store, LinkRedirected(last'.slug[1]))]_vars

\* C15 witness: a redirect of a slug returned while another slug has
\* counter 0.
C15_Witness ==
    /\ last.op = "handle_redirect"
    /\ last.result[1] = "Ok"
    /\ stats[last.slug[1]].redirects = 1
    /\ event_store[Len(event_store)] = LinkRedirected(last.slug[1])
    /\ \E u \in DOMAIN stats : u # last.slug[1] /\ stats[u].redirects = 0

\* C16: a create that returns Ok(ShortLink{s, url}) returns the url and,
\* when one was requested, the slug it was passed, adds s -> ShortLink{s,
\* url} to the link table and s -> Stats{link, 0} to the stats table,
\* appends LinkCreated(ShortLink{s, url}) as the last event and changes no
\* other entry.
C16_CreateEffect ==
    [][(Returned("handle_create_short_link") /\ last'.result[1] = "Ok")
         => LET short_link == last'.result[2] IN
            /\ short_link.url = last'.url[1]
            /\ last'.slug # None => short_link.slug = last'.slug[1]
            /\ short_link.slug \notin DOMAIN links
            /\ short_link.slug \notin DOMAIN stats
            /\ links' = insert(links, short_link.slug, short_link)
            /\ stats' = insert(stats, short_link.slug, Stats(short_link, 0))
            /\ event_store' =
                 Append(event_store, LinkCreated(short_link))]_vars

\* C16 witness: a create without a slug returned Ok while another link,
\* redirected once, exists.
C16_Witness ==
    /\ last.op = "handle_create_short_link"
    /\ last.slug = None
    /\ last.result[1] = "Ok"
    /\ links[last.result[2].slug] = last.result[2]
    /\ event_store[Len(event_store)] = LinkCreated(last.result[2])
    /\ \E u \in DOMAIN stats :
          u # last.result[2].slug /\ stats[u].redirects = 1

\* C17: every LinkRedirected(s) in the log is preceded by a LinkCreated
\* for s, and the log holds at most one LinkCreated per slug.
C17_LogWellFormed ==
    /\ \A i \in 1..Len(event_store) :
          event_store[i][1] = "LinkRedirected"
             => \E j \in 1..(i - 1) :
                   /\ event_store[j][1] = "LinkCreated"
                   /\ event_store[j][2].slug = event_store[i][2]
    /\ \A i, j \in 1..Len(event_store) :
          (/\ i # j
           /\ event_store[i][1] = "LinkCreated"
           /\ event_store[j][1] = "LinkCreated")
             => event_store[i][2].slug # event_store[j][2].slug

\* C17 witness: the log holds a creation and a redirect of its slug, and
\* a redirect of an unknown slug has just been refused.
C17_Witness ==
    /\ Len(event_store) = 2
    /\ event_store[1][1] = "LinkCreated"
    /\ event_store[2] = LinkRedirected(event_store[1][2].slug)
    /\ last.op = "handle_redirect"
    /\ last.result = Err(SlugNotFound)

\* The events of the log that redirect slug s.
Redirections(s) ==
    {i \in 1..Len(event_store) : event_store[i] = LinkRedirected(s)}

\* C18: at every step of a command the tables hold no change whose event
\* is not in the log: every link and every Stats entry has its LinkCreated
\* in the log, and no counter exceeds the LinkRedirected events of its
\* slug.
C18_AppendBeforeFold ==
    /\ \A s \in DOMAIN links :
          \E i \in 1..Len(event_store) :
              event_store[i] = LinkCreated(links[s])
    /\ \A s \in DOMAIN stats :
          /\ \E i \in 1..Len(event_store) :
                event_store[i] = LinkCreated(stats[s].link)
          /\ stats[s].redirects <= Cardinality(Redirections(s))

\* C19: when get_stats returns, no caller is inside a command, every link
\* has its Stats entry, the tables are the fold of the log, and the result
\* is the entry of the stats table.
C19_ReadersSeeWholeCommands ==
    [][Returned("get_stats")
         => /\ \A c \in Callers : ~InCommand(c)
            /\ DOMAIN links = DOMAIN stats
            /\ replay(event_store) = LiveState
            /\ last'.result =
                 (IF last'.slug[1] \in DOMAIN links
                  THEN Ok(Stats(links[last'.slug[1]],
                                Cardinality(Redirections(last'.slug[1]))))
                  ELSE Err(SlugNotFound))]_vars

\* C19 witness: get_stats of a slug returned Err(SlugNotFound), and a
\* create of that slug by a caller has since inserted the link but not
\* yet the Stats.
C19_Witness ==
    /\ last.op = "get_stats"
    /\ last.result = Err(SlugNotFound)
    /\ \E c \in Callers :
          /\ threads[c].pc = "insert_stats"
          /\ threads[c].slug = last.slug
          /\ last.slug[1] \in DOMAIN links
          /\ last.slug[1] \notin DOMAIN stats

====
